---------------------------- MODULE Spec2Model ----------------------------
(***************************************************************************)
(* Model of fix_player_data.py: the players-table repair                   *)
(* (fix_existing_data), the two field normalizers (normalize_shoots,       *)
(* normalize_draft_round), the profile extractor (test_scrape_player) and  *)
(* the batch driver (main).                                                *)
(*                                                                         *)
(* Text is a sequence of one-character strings.  A nullable value (Python  *)
(* None, SQL NULL) is the empty set; a present value v is {v}.             *)
(***************************************************************************)
EXTENDS Integers, Sequences, FiniteSets, TLC

VARIABLES
    db,              \* the persisted players table (what a new connection sees)
    tx,              \* the table as seen through fix_existing_data's open connection
    db0,             \* history: the persisted table when the current repair run connected
    initial,         \* history: the persisted table before anything ran
    pc,              \* position of the running procedure
    invalid_rounds,  \* rows fetched by the step-1 select (and printed "round n -> 2")
    left_issues,     \* rows fetched by the Left select  (and printed "'old' -> 'Left'")
    right_issues,    \* rows fetched by the Right select (and printed "'old' -> 'Right'")
    rowcount,        \* cursor.rowcount printed after each of the three updates (-1: not run)
    undrafted_count, \* the step-3 count ({} before it is taken)
    runs,            \* completed runs of fix_existing_data
    failed,          \* main: a fetch raised (raise_for_status)
    tests_done,      \* main: test_scrape_player calls that returned
    report,          \* main: the final validation's two distributions ({} before it)
    rec,             \* test_scrape_player: the record being built
    last_draft,      \* history: kind of the last "Draft:" paragraph processed
    nparas,          \* test_scrape_player: paragraphs processed
    cleared,         \* history: an "Undrafted" paragraph reset a field set earlier
    arg,             \* normalizers: the input
    once,            \* normalizers: f(arg)
    twice            \* normalizers: f(f(arg))

vars == <<db, tx, db0, initial, pc, invalid_rounds, left_issues, right_issues, rowcount,
          undrafted_count, runs, failed, tests_done, report, rec, last_draft,
          nparas, cleared, arg, once, twice>>

repairVars == <<invalid_rounds, left_issues, right_issues, rowcount, undrafted_count>>
mainVars == <<failed, tests_done, report>>
extractVars == <<rec, last_draft, nparas, cleared>>
normVars == <<arg, once, twice>>

----------------------------------------------------------------------------
(* Nullable values *)

None == {}
Some(v) == {v}
The(o) == CHOOSE v \in o : TRUE

----------------------------------------------------------------------------
(* Text *)

Left == <<"L", "e", "f", "t">>
Right == <<"R", "i", "g", "h", "t">>
left == <<"l", "e", "f", "t">>
right == <<"r", "i", "g", "h", "t">>
RIGHT == <<"R", "I", "G", "H", "T">>
Both == <<"B", "o", "t", "h">>
Space == <<" ">>

Whitespace == {" "}

\* str.lower() / SQLite's ASCII case folding, one character
LowerChar(c) ==
    CASE c = "L" -> "l" [] c = "R" -> "r" [] c = "B" -> "b"
      [] c = "I" -> "i" [] c = "G" -> "g" [] c = "H" -> "h"
      [] c = "T" -> "t" [] c = "E" -> "e" [] c = "F" -> "f"
      [] OTHER -> c

Lower(s) == [i \in 1..Len(s) |-> LowerChar(s[i])]

\* Python's `sub in s`
Contains(s, sub) ==
    \E i \in 1..(Len(s) - Len(sub) + 1) : SubSeq(s, i, i + Len(sub) - 1) = sub

RECURSIVE LStrip(_)
LStrip(s) == IF s # <<>> /\ Head(s) \in Whitespace THEN LStrip(Tail(s)) ELSE s

RECURSIVE RStrip(_)
RStrip(s) ==
    IF s # <<>> /\ s[Len(s)] \in Whitespace THEN RStrip(SubSeq(s, 1, Len(s) - 1)) ELSE s

\* str.strip()
Strip(s) == RStrip(LStrip(s))

----------------------------------------------------------------------------
(* The normalizers *)

RoundCap == 2

\* A variant that tests for Right before Left.
normalize_shoots_right_first(shoots_text) ==
    IF shoots_text = None \/ The(shoots_text) = <<>> THEN None
    ELSE LET t == Strip(The(shoots_text)) IN
         IF Contains(t, Right) \/ Contains(Lower(t), right) THEN Some(Right)
         ELSE IF Contains(t, Left) \/ Contains(Lower(t), left) THEN Some(Left)
         ELSE Some(t)

normalize_shoots(shoots_text) ==
    IF shoots_text = None \/ The(shoots_text) = <<>> THEN None
    ELSE LET t == Strip(The(shoots_text)) IN
         IF Contains(t, Left) \/ Contains(Lower(t), left) THEN Some(Left)
         ELSE IF Contains(t, Right) \/ Contains(Lower(t), right) THEN Some(Right)
         ELSE Some(t)

Min(a, b) == IF a <= b THEN a ELSE b

Digits == {"0", "1", "2", "3", "4", "5", "6", "7", "8", "9"}

DigitVal(c) ==
    CASE c = "0" -> 0 [] c = "1" -> 1 [] c = "2" -> 2 [] c = "3" -> 3 [] c = "4" -> 4
      [] c = "5" -> 5 [] c = "6" -> 6 [] c = "7" -> 7 [] c = "8" -> 8 [] c = "9" -> 9

RECURSIVE DecVal(_)
DecVal(s) == IF s = <<>> THEN 0 ELSE 10 * DecVal(SubSeq(s, 1, Len(s) - 1)) + DigitVal(s[Len(s)])

\* int(text): surrounding whitespace, an optional sign, then digits; None on ValueError
ParseInt(s) ==
    LET t == Strip(s)
        neg == t # <<>> /\ Head(t) = "-"
        d == IF t # <<>> /\ Head(t) \in {"-", "+"} THEN Tail(t) ELSE t
    IN  IF d # <<>> /\ \A i \in 1..Len(d) : d[i] \in Digits
        THEN Some(IF neg THEN 0 - DecVal(d) ELSE DecVal(d))
        ELSE None

\* A raw round is [t |-> "none"], [t |-> "int", n |-> n] or [t |-> "str", s |-> text].
NoneRaw == [t |-> "none"]
IntRaw(n) == [t |-> "int", n |-> n]
StrRaw(s) == [t |-> "str", s |-> s]

\* int(round_num)
ToInt(round_num) == IF round_num.t = "int" THEN Some(round_num.n) ELSE ParseInt(round_num.s)

normalize_draft_round(round_num) ==
    IF round_num.t = "none" THEN None
    ELSE LET round_int == ToInt(round_num) IN
         IF round_int = None THEN None ELSE Some(Min(The(round_int), RoundCap))

\* A nullable integer handed back as a raw round
AsRaw(o) == IF o = None THEN NoneRaw ELSE IntRaw(The(o))

----------------------------------------------------------------------------
(* The players table *)

PlayerIds == {"bryanko01", "jamesle01"}

Pieces == {Left, Right, left, RIGHT, Both, Space}

\* Stored text: up to two pieces joined
StoredText == {<<>>} \cup Pieces \cup {a \o b : a \in Pieces, b \in Pieces}

MinRound == 0 - 1
MaxRound == 3

StoredShoots == {None} \cup {Some(s) : s \in StoredText}
StoredRounds == {None} \cup {Some(n) : n \in MinRound..MaxRound}

Rows == [shoots : StoredShoots, draft_round : StoredRounds]
Tables == [PlayerIds -> Rows]

\* SQLite: shoots LIKE '%word%' (ASCII case-insensitive; NULL never matches)
Like(shoots, word) == shoots # None /\ Contains(Lower(The(shoots)), Lower(word))

\* SQLite: shoots != 'word' (binary comparison; NULL never matches)
NotEq(shoots, word) == shoots # None /\ The(shoots) # word

\* A variant with the bound off by one: WHERE draft_round > 3
RoundTooHighLoose(row) == row.draft_round # None /\ The(row.draft_round) > RoundCap + 1

\* WHERE draft_round > 2
RoundTooHigh(row) == row.draft_round # None /\ The(row.draft_round) > RoundCap

\* A variant with the leading wildcard missing: shoots LIKE 'Left%'
LeftAnomalyPrefix(row) ==
    /\ row.shoots # None
    /\ Len(The(row.shoots)) >= Len(Left)
    /\ Lower(SubSeq(The(row.shoots), 1, Len(Left))) = Lower(Left)
    /\ NotEq(row.shoots, Left)

\* WHERE shoots LIKE '%Left%' AND shoots != 'Left'
LeftAnomaly(row) == Like(row.shoots, Left) /\ NotEq(row.shoots, Left)

\* WHERE shoots LIKE '%Right%' AND shoots != 'Right'
RightAnomaly(row) == Like(row.shoots, Right) /\ NotEq(row.shoots, Right)

Matching(t, Where(_)) == {p \in PlayerIds : Where(t[p])}

\* SELECT player_id, full_name, draft_round FROM players WHERE draft_round > 2
SelectInvalidRounds(t) ==
    {[player_id |-> p, draft_round |-> The(t[p].draft_round)] : p \in Matching(t, RoundTooHigh)}

\* SELECT player_id, full_name, shoots FROM players WHERE <left anomaly>
SelectLeftIssues(t) ==
    {[player_id |-> p, shoots |-> The(t[p].shoots)] : p \in Matching(t, LeftAnomaly)}

\* SELECT player_id, full_name, shoots FROM players WHERE <right anomaly>
SelectRightIssues(t) ==
    {[player_id |-> p, shoots |-> The(t[p].shoots)] : p \in Matching(t, RightAnomaly)}

\* A variant that writes the offending bound back: SET draft_round = 3
UpdateRoundsOffByOne(t) ==
    [p \in PlayerIds |->
        IF RoundTooHigh(t[p]) THEN [t[p] EXCEPT !.draft_round = Some(RoundCap + 1)] ELSE t[p]]

\* UPDATE players SET draft_round = 2 WHERE draft_round > 2
UpdateRounds(t) ==
    [p \in PlayerIds |->
        IF RoundTooHigh(t[p]) THEN [t[p] EXCEPT !.draft_round = Some(RoundCap)] ELSE t[p]]

\* UPDATE players SET shoots = 'Left' WHERE <left anomaly>
UpdateLeft(t) ==
    [p \in PlayerIds |->
        IF LeftAnomaly(t[p]) THEN [t[p] EXCEPT !.shoots = Some(Left)] ELSE t[p]]

\* UPDATE players SET shoots = 'Right' WHERE <right anomaly>
UpdateRight(t) ==
    [p \in PlayerIds |->
        IF RightAnomaly(t[p]) THEN [t[p] EXCEPT !.shoots = Some(Right)] ELSE t[p]]

\* SELECT COUNT(*) FROM players WHERE draft_round IS NULL
CountUndrafted(t) == Cardinality({p \in PlayerIds : t[p].draft_round = None})

\* A variant in autocommit mode: each statement is persisted as it runs.
Autocommit(persisted, working) == working

\* sqlite3's implicit transaction: a statement run on the connection changes
\* what the connection sees and leaves the persisted table alone until commit().
ImplicitTransaction(persisted, working) == persisted

NoRowcount == [rounds |-> 0 - 1, left |-> 0 - 1, right |-> 0 - 1]

----------------------------------------------------------------------------
(* fix_existing_data, statement by statement *)

MaxRuns == 2

InTransaction ==
    {"select_rounds", "fix_rounds", "select_left", "select_right",
     "fix_left", "fix_right", "count_undrafted", "commit"}

\* conn = sqlite3.connect(DB_PATH); cursor = conn.cursor()
Connect ==
    /\ pc = "start"
    /\ tx' = db
    /\ db0' = db
    /\ invalid_rounds' = {}
    /\ left_issues' = {}
    /\ right_issues' = {}
    /\ rowcount' = NoRowcount
    /\ undrafted_count' = None
    /\ pc' = "select_rounds"
    /\ UNCHANGED <<db, initial, runs, mainVars, extractVars, normVars>>

SelectRounds ==
    /\ pc = "select_rounds"
    /\ invalid_rounds' = SelectInvalidRounds(tx)
    /\ pc' = "fix_rounds"
    /\ UNCHANGED <<db, tx, db0, initial, left_issues, right_issues, rowcount, undrafted_count,
                   runs, mainVars, extractVars, normVars>>

\* if invalid_rounds: print each row, UPDATE, print rowcount
FixRounds ==
    /\ pc = "fix_rounds"
    /\ IF invalid_rounds # {}
       THEN /\ tx' = UpdateRounds(tx)
            /\ rowcount' = [rowcount EXCEPT !.rounds = Cardinality(Matching(tx, RoundTooHigh))]
       ELSE UNCHANGED <<tx, rowcount>>
    /\ db' = ImplicitTransaction(db, tx')
    /\ pc' = "select_left"
    /\ UNCHANGED <<db0, initial, invalid_rounds, left_issues, right_issues, undrafted_count,
                   runs, mainVars, extractVars, normVars>>

SelectLeft ==
    /\ pc = "select_left"
    /\ left_issues' = SelectLeftIssues(tx)
    /\ pc' = "select_right"
    /\ UNCHANGED <<db, tx, db0, initial, invalid_rounds, right_issues, rowcount, undrafted_count,
                   runs, mainVars, extractVars, normVars>>

SelectRight ==
    /\ pc = "select_right"
    /\ right_issues' = SelectRightIssues(tx)
    /\ pc' = "fix_left"
    /\ UNCHANGED <<db, tx, db0, initial, invalid_rounds, left_issues, rowcount, undrafted_count,
                   runs, mainVars, extractVars, normVars>>

\* if left_issues: print each row "-> 'Left'", UPDATE, print rowcount
FixLeft ==
    /\ pc = "fix_left"
    /\ IF left_issues # {}
       THEN /\ tx' = UpdateLeft(tx)
            /\ rowcount' = [rowcount EXCEPT !.left = Cardinality(Matching(tx, LeftAnomaly))]
       ELSE UNCHANGED <<tx, rowcount>>
    /\ db' = ImplicitTransaction(db, tx')
    /\ pc' = "fix_right"
    /\ UNCHANGED <<db0, initial, invalid_rounds, left_issues, right_issues, undrafted_count,
                   runs, mainVars, extractVars, normVars>>

\* if right_issues: print each row "-> 'Right'", UPDATE, print rowcount
FixRight ==
    /\ pc = "fix_right"
    /\ IF right_issues # {}
       THEN /\ tx' = UpdateRight(tx)
            /\ rowcount' = [rowcount EXCEPT !.right = Cardinality(Matching(tx, RightAnomaly))]
       ELSE UNCHANGED <<tx, rowcount>>
    /\ db' = ImplicitTransaction(db, tx')
    /\ pc' = "count_undrafted"
    /\ UNCHANGED <<db0, initial, invalid_rounds, left_issues, right_issues, undrafted_count,
                   runs, mainVars, extractVars, normVars>>

CheckUndrafted ==
    /\ pc = "count_undrafted"
    /\ undrafted_count' = Some(CountUndrafted(tx))
    /\ pc' = "commit"
    /\ UNCHANGED <<db, tx, db0, initial, invalid_rounds, left_issues, right_issues, rowcount,
                   runs, mainVars, extractVars, normVars>>

\* conn.commit()
Commit ==
    /\ pc = "commit"
    /\ db' = tx
    /\ pc' = "close"
    /\ UNCHANGED <<tx, db0, initial, repairVars, runs, mainVars, extractVars, normVars>>

\* conn.close(); return
Close ==
    /\ pc = "close"
    /\ runs' = runs + 1
    /\ pc' = "returned"
    /\ UNCHANGED <<db, tx, db0, initial, repairVars, mainVars, extractVars, normVars>>

\* A storage fault raised by a statement before the commit: the exception leaves
\* fix_existing_data, the connection is dropped and its transaction rolled back.
Fault ==
    /\ pc \in InTransaction
    /\ tx' = db
    /\ pc' = "aborted"
    /\ UNCHANGED <<db, db0, initial, repairVars, runs, mainVars, extractVars, normVars>>

RepairStep ==
    \/ Connect
    \/ SelectRounds
    \/ FixRounds
    \/ SelectLeft
    \/ SelectRight
    \/ FixLeft
    \/ FixRight
    \/ CheckUndrafted
    \/ Commit
    \/ Close
    \/ Fault

\* fix_existing_data is called again, with no other writer in between
Rerun ==
    /\ pc = "returned"
    /\ runs < MaxRuns
    /\ pc' = "start"
    /\ UNCHANGED <<db, tx, db0, initial, repairVars, runs, mainVars, extractVars, normVars>>

NoRecord ==
    [name |-> <<>>, shoots |-> None, draft_year |-> None, draft_round |-> None,
     draft_pick |-> None, draft_team |-> None]

InitRepair ==
    /\ db \in Tables
    /\ tx = db
    /\ db0 = db
    /\ initial = db
    /\ pc = "start"
    /\ invalid_rounds = {}
    /\ left_issues = {}
    /\ right_issues = {}
    /\ rowcount = NoRowcount
    /\ undrafted_count = None
    /\ runs = 0
    /\ failed = FALSE
    /\ tests_done = 0
    /\ report = None
    /\ rec = NoRecord
    /\ last_draft = "none"
    /\ nparas = 0
    /\ cleared = FALSE
    /\ arg = [f |-> "none"]
    /\ once = None
    /\ twice = None

NextRepair == RepairStep \/ Rerun

SpecRepair == InitRepair /\ [][NextRepair]_vars

----------------------------------------------------------------------------
(* main: the repair, three test extractions, the final validation *)

\* A variant that swallows the fetch error and carries on with the next step.
AfterFetchSwallowed(ok, next) == next

\* response.raise_for_status() in test_scrape_player, called from main with no
\* try/except: a failed fetch leaves main, a successful one returns to it.
AfterFetch(ok, next) == IF ok THEN next ELSE "crashed"

\* test_scrape_player(player_id) as main sees it: the returned record is dropped.
Scrape(next) ==
    \E ok \in BOOLEAN :
        /\ pc' = AfterFetch(ok, next)
        /\ failed' = (failed \/ ~ok)
        /\ tests_done' = IF ok THEN tests_done + 1 ELSE tests_done

\* test_scrape_player("bryanko01")
Test1 ==
    /\ pc = "returned"
    /\ Scrape("test2")
    /\ UNCHANGED <<db, tx, db0, initial, repairVars, runs, report, extractVars, normVars>>

\* SELECT player_id FROM players WHERE draft_round IS NULL LIMIT 1; if result: test it
Test2 ==
    /\ pc = "test2"
    /\ IF \E p \in PlayerIds : db[p].draft_round = None
       THEN Scrape("test3")
       ELSE /\ pc' = "test3"
            /\ UNCHANGED <<failed, tests_done>>
    /\ UNCHANGED <<db, tx, db0, initial, repairVars, runs, report, extractVars, normVars>>

\* test_scrape_player("jamesle01")
Test3 ==
    /\ pc = "test3"
    /\ Scrape("validate")
    /\ UNCHANGED <<db, tx, db0, initial, repairVars, runs, report, extractVars, normVars>>

\* SELECT shoots, COUNT(*) FROM players GROUP BY shoots
ShootsDistribution(t) ==
    {[value |-> v, count |-> Cardinality({p \in PlayerIds : t[p].shoots = v})] :
        v \in {t[p].shoots : p \in PlayerIds}}

\* SELECT draft_round, COUNT(*) FROM players GROUP BY draft_round
RoundDistribution(t) ==
    {[value |-> v, count |-> Cardinality({p \in PlayerIds : t[p].draft_round = v})] :
        v \in {t[p].draft_round : p \in PlayerIds}}

\* === Final Validation ===
Validate ==
    /\ pc = "validate"
    /\ report' = Some([shoots |-> ShootsDistribution(db), rounds |-> RoundDistribution(db)])
    /\ pc' = "done"
    /\ UNCHANGED <<db, tx, db0, initial, repairVars, runs, failed, tests_done, extractVars, normVars>>

Init == InitRepair

Next == RepairStep \/ Test1 \/ Test2 \/ Test3 \/ Validate

Spec == Init /\ [][Next]_vars

----------------------------------------------------------------------------
(* test_scrape_player: the patterns *)

DraftMarker == <<"D", "r", "a", "f", "t", ":">>
ShootsWord == <<"S", "h", "o", "o", "t", "s", ":">>
RoundWord == <<"r", "o", "u", "n", "d">>
PickWord == <<"p", "i", "c", "k">>
NBAWord == <<"N", "B", "A">>
DraftWord == <<"D", "r", "a", "f", "t">>
UndraftedWord == <<"U", "n", "d", "r", "a", "f", "t", "e", "d">>
LowerUndraftedWord == <<"u", "n", "d", "r", "a", "f", "t", "e", "d">>
KobeBryant == <<"K", "o", "b", "e", " ", "B", "r", "y", "a", "n", "t">>
KobeBryantHeading == <<"K", "o", "b", "e", " ", "B", "r", "y", "a", "n", "t", " ", "S", "t", "a", "t", "s">>

Punctuation == {",", ":", "(", ")"}

\* \w and \s over the characters of the modelled text
IsWord(c) == c \notin Whitespace \cup Punctuation
IsSpace(c) == c \in Whitespace

StartsAt(s, i, w) == i >= 1 /\ i + Len(w) - 1 <= Len(s) /\ SubSeq(s, i, i + Len(w) - 1) = w

SetMin(S) == CHOOSE x \in S : \A y \in S : x <= y
SetMax(S) == CHOOSE x \in S : \A y \in S : x >= y

\* The end of the longest run of characters satisfying Ok that starts at i (i - 1: none)
RunEnd(s, i, Ok(_)) == SetMax({j \in (i - 1)..Len(s) : \A k \in i..j : Ok(s[k])})

IsDigit(c) == c \in Digits
NotSpace(c) == ~IsSpace(c)

\* re.search(r'Shoots:\s*(\S+)', text): group 1, or None
ShootsMatch(s) ==
    LET Tok(i) == RunEnd(s, i + Len(ShootsWord), IsSpace) + 1
        starts == {i \in 1..Len(s) : StartsAt(s, i, ShootsWord) /\ Tok(i) <= Len(s)}
    IN  IF starts = {} THEN None
        ELSE LET g == Tok(SetMin(starts)) IN Some(SubSeq(s, g, RunEnd(s, g, NotSpace)))

\* re.search(r'Draft:\s*(.+?),', text): group 1, or None
DraftTeamMatch(s) ==
    LET After(i) == i + Len(DraftMarker)
        Commas(g) == {c \in (g + 1)..Len(s) : s[c] = ","}
        \* group starts the \s* can leave, greedy first
        Groups(i) == {g \in After(i)..(RunEnd(s, After(i), IsSpace) + 1) : Commas(g) # {}}
        starts == {i \in 1..Len(s) : StartsAt(s, i, DraftMarker) /\ Groups(i) # {}}
    IN  IF starts = {} THEN None
        ELSE LET g == SetMax(Groups(SetMin(starts)))
             IN  Some(SubSeq(s, g, SetMin(Commas(g)) - 1))

\* re.search(r'(\d+)\w*\s*<word>', text): int(group 1), or None
OrdinalMatch(s, word) ==
    LET Matches(i) ==
            /\ IsDigit(s[i])
            /\ \E j \in i..RunEnd(s, i, IsWord) :
                  \E k \in j..RunEnd(s, j + 1, IsSpace) : StartsAt(s, k + 1, word)
        starts == {i \in 1..Len(s) : Matches(i)}
    IN  IF starts = {} THEN None
        ELSE LET i == SetMin(starts) IN Some(DecVal(SubSeq(s, i, RunEnd(s, i, IsDigit))))

\* re.search(r'(\d{4})\s*NBA\s*Draft', text): int(group 1), or None
YearMatch(s) ==
    LET Matches(i) ==
            /\ i + 3 <= Len(s)
            /\ \A k \in i..(i + 3) : IsDigit(s[k])
            /\ \E a \in (i + 3)..RunEnd(s, i + 4, IsSpace) :
                  /\ StartsAt(s, a + 1, NBAWord)
                  /\ \E b \in (a + Len(NBAWord))..RunEnd(s, a + Len(NBAWord) + 1, IsSpace) :
                        StartsAt(s, b + 1, DraftWord)
        starts == {i \in 1..Len(s) : Matches(i)}
    IN  IF starts = {} THEN None
        ELSE LET i == SetMin(starts) IN Some(DecVal(SubSeq(s, i, i + 3)))

----------------------------------------------------------------------------
(* test_scrape_player: the paragraphs of the meta section *)

ShootsRightText == <<"S", "h", "o", "o", "t", "s", ":", "R", "i", "g", "h", "t", " ">>
ShootsLeftText == <<"S", "h", "o", "o", "t", "s", ":", " ", "l", "e", "f", "t", " ">>
TeamText == <<"L", "a", "k", "e", "r", "s", ",", " ">>
FirstRoundText == <<"1", "s", "t", " ", "r", "o", "u", "n", "d", " ">>
ThirdRoundText == <<"3", "r", "d", " ", "r", "o", "u", "n", "d", " ">>
PickText == <<"1", "3", "t", "h", " ", "p", "i", "c", "k", " ">>
YearText == <<"1", "9", "9", "6", " ", "N", "B", "A", " ", "D", "r", "a", "f", "t", " ">>
UndraftedText == <<"U", "n", "d", "r", "a", "f", "t", "e", "d", " ">>
ProfileDraftText ==
    <<"D", "r", "a", "f", "t", ":", "C", "h", "a", "r", "l", "o", "t", "t", "e", " ", "H", "o", "r", "n", "e", "t", "s", ",", " ", "1", "s", "t", " ", "r", "o", "u", "n", "d", " ", "(", "1", "3",
    "t", "h", " ", "p", "i", "c", "k", ",", " ", "1", "3", "t", "h", " ", "o", "v", "e", "r", "a", "l", "l", ")", ",", " ", "1", "9", "9", "6", " ", "N", "B", "A", " ", "D", "r", "a", "f", "t", " ">>
LowerUndraftedText == <<"u", "n", "d", "r", "a", "f", "t", "e", "d", " ">>

Fragments ==
    {ShootsRightText, ShootsLeftText, DraftMarker, TeamText, FirstRoundText,
     ThirdRoundText, PickText, YearText, UndraftedText, LowerUndraftedText,
     ProfileDraftText}

MaxFragments == 2
MaxParagraphs == 3

RECURSIVE TextsUpTo(_)
TextsUpTo(n) ==
    IF n = 0 THEN {<<>>}
    ELSE LET shorter == TextsUpTo(n - 1)
         IN  shorter \cup {t \o f : t \in shorter, f \in Fragments}

\* paragraph.get_text(strip=True)
Paragraphs == {Strip(t) : t \in TextsUpTo(MaxFragments)}

----------------------------------------------------------------------------
(* test_scrape_player *)

\* The page's h1: absent, or its text and the text of its span (if it has one)
Headings ==
    {None,
     Some([span |-> None, text |-> KobeBryantHeading]),
     Some([span |-> Some(KobeBryant), text |-> KobeBryantHeading])}

FullName(heading) ==
    IF heading = None THEN <<>>
    ELSE IF The(heading).span # None THEN Strip(The(The(heading).span))
    ELSE Strip(The(heading).text)

HasDraft(text) == Contains(text, DraftMarker)
HasUndrafted(text) == Contains(text, UndraftedWord) \/ Contains(text, LowerUndraftedWord)

\* What the loop body reads off one paragraph's text: the substring tests and
\* the five re.search results
Matches(text) ==
    [has_shoots |-> Contains(text, ShootsWord),
     shoots_match |-> ShootsMatch(text),
     has_draft |-> HasDraft(text),
     undrafted |-> HasUndrafted(text),
     draft_team_match |-> DraftTeamMatch(text),
     round_match |-> OrdinalMatch(text, RoundWord),
     pick_match |-> OrdinalMatch(text, PickWord),
     year_match |-> YearMatch(text)]

ParagraphMatches == {Matches(text) : text \in Paragraphs}

\* if "Shoots:" in text: ...
ShootsField(r, m) ==
    IF m.has_shoots /\ m.shoots_match # None
    THEN [r EXCEPT !.shoots = normalize_shoots(Some(Strip(The(m.shoots_match))))]
    ELSE r

\* A variant of the "Undrafted" branch that leaves the pick as it was.
UndraftedKeepsPick(r) ==
    [r EXCEPT !.draft_round = None, !.draft_team = None, !.draft_year = None]

\* the "Undrafted" branch: all four draft fields to None
Undrafted(r) ==
    [r EXCEPT !.draft_round = None, !.draft_pick = None,
              !.draft_team = None, !.draft_year = None]

\* the else branch: four independent patterns over the same text
DraftFields(r, m) ==
    [r EXCEPT
       !.draft_team = IF m.draft_team_match # None
                      THEN Some(Strip(The(m.draft_team_match))) ELSE @,
       !.draft_round = IF m.round_match # None
                       THEN normalize_draft_round(IntRaw(The(m.round_match))) ELSE @,
       !.draft_pick = IF m.pick_match # None THEN m.pick_match ELSE @,
       !.draft_year = IF m.year_match # None THEN m.year_match ELSE @]

\* the body of `for paragraph in paragraphs`
ProcessParagraph(r, m) ==
    LET r1 == ShootsField(r, m) IN
    IF ~m.has_draft THEN r1
    ELSE IF m.undrafted THEN Undrafted(r1)
    ELSE DraftFields(r1, m)

DraftSet(r) ==
    r.draft_round # None \/ r.draft_pick # None \/ r.draft_team # None \/ r.draft_year # None

\* requests.get; raise_for_status; the h1; the meta div
Fetch ==
    /\ pc = "scrape"
    /\ \E ok \in BOOLEAN, heading \in Headings, meta_div \in BOOLEAN :
          IF ~ok
          THEN /\ pc' = "raised"
               /\ UNCHANGED rec
          ELSE /\ rec' = [NoRecord EXCEPT !.name = FullName(heading)]
               /\ pc' = IF meta_div THEN "paragraphs" ELSE "returned"
    /\ UNCHANGED <<db, tx, db0, initial, repairVars, runs, mainVars, last_draft, nparas, cleared,
                   normVars>>

\* one iteration of the loop over the meta section's paragraphs
Paragraph ==
    /\ pc = "paragraphs"
    /\ nparas < MaxParagraphs
    /\ \E m \in ParagraphMatches :
          /\ rec' = ProcessParagraph(rec, m)
          /\ last_draft' = IF ~m.has_draft THEN last_draft
                           ELSE IF m.undrafted THEN "undrafted" ELSE "drafted"
          /\ cleared' = IF ~m.has_draft THEN cleared ELSE m.undrafted /\ DraftSet(rec)
    /\ nparas' = nparas + 1
    /\ UNCHANGED <<db, tx, db0, initial, pc, repairVars, runs, mainVars, normVars>>

\* the loop ends; return the record
Return ==
    /\ pc = "paragraphs"
    /\ pc' = "returned"
    /\ UNCHANGED <<db, tx, db0, initial, repairVars, runs, mainVars, extractVars, normVars>>

InitExtract ==
    /\ db = [p \in PlayerIds |-> [shoots |-> None, draft_round |-> None]]
    /\ tx = db
    /\ db0 = db
    /\ initial = db
    /\ pc = "scrape"
    /\ invalid_rounds = {}
    /\ left_issues = {}
    /\ right_issues = {}
    /\ rowcount = NoRowcount
    /\ undrafted_count = None
    /\ runs = 0
    /\ failed = FALSE
    /\ tests_done = 0
    /\ report = None
    /\ rec = NoRecord
    /\ last_draft = "none"
    /\ nparas = 0
    /\ cleared = FALSE
    /\ arg = [f |-> "none"]
    /\ once = None
    /\ twice = None

NextExtract == Fetch \/ Paragraph \/ Return

SpecExtract == InitExtract /\ [][NextExtract]_vars

----------------------------------------------------------------------------
(* The normalizers applied to an input, then to their own output *)

RawChars == {"1", "3", "-", " ", "x"}
MaxRawLen == 2

RECURSIVE RawTextsUpTo(_)
RawTextsUpTo(n) ==
    IF n = 0 THEN {<<>>}
    ELSE LET shorter == RawTextsUpTo(n - 1)
         IN  shorter \cup {Append(t, c) : t \in shorter, c \in RawChars}

RawRounds ==
    {NoneRaw} \cup {IntRaw(n) : n \in MinRound..MaxRound}
              \cup {StrRaw(t) : t \in RawTextsUpTo(MaxRawLen)}

NormInputs ==
    {[f |-> "shoots", shoots_text |-> x] : x \in StoredShoots} \cup
    {[f |-> "round", round_num |-> x] : x \in RawRounds}

NormalizeShoots ==
    /\ pc = "input"
    /\ arg.f = "shoots"
    /\ once' = normalize_shoots(arg.shoots_text)
    /\ twice' = normalize_shoots(once')
    /\ pc' = "normalized"
    /\ UNCHANGED <<db, tx, db0, initial, repairVars, runs, mainVars, extractVars, arg>>

NormalizeRound ==
    /\ pc = "input"
    /\ arg.f = "round"
    /\ once' = normalize_draft_round(arg.round_num)
    /\ twice' = normalize_draft_round(AsRaw(once'))
    /\ pc' = "normalized"
    /\ UNCHANGED <<db, tx, db0, initial, repairVars, runs, mainVars, extractVars, arg>>

InitNorm ==
    /\ db = [p \in PlayerIds |-> [shoots |-> None, draft_round |-> None]]
    /\ tx = db
    /\ db0 = db
    /\ initial = db
    /\ pc = "input"
    /\ invalid_rounds = {}
    /\ left_issues = {}
    /\ right_issues = {}
    /\ rowcount = NoRowcount
    /\ undrafted_count = None
    /\ runs = 0
    /\ failed = FALSE
    /\ tests_done = 0
    /\ report = None
    /\ rec = NoRecord
    /\ last_draft = "none"
    /\ nparas = 0
    /\ cleared = FALSE
    /\ arg \in NormInputs
    /\ once = None
    /\ twice = None

NextNorm == NormalizeShoots \/ NormalizeRound

SpecNorm == InitNorm /\ [][NextNorm]_vars

----------------------------------------------------------------------------
(* Properties of the repair *)

LeftRight == Left \o Right
RightLeft == Right \o Left

\* fix_existing_data has run its Left pass and then its Right pass
PassesApplied == pc \notin {"start", "aborted"} \cup (InTransaction \ {"count_undrafted", "commit"})

\* a run of fix_existing_data that follows a completed one is under way or done
InLaterRun ==
    /\ runs >= 1
    /\ \/ pc \in InTransaction \cup {"close"}
       \/ pc = "returned" /\ runs >= 2

\* C1: a run of fix_existing_data that follows a completed run finds no row in
\* step 1 and none in either pass of step 2, runs no update, and leaves the
\* table as the earlier run left it.
C1_SecondRunIsNoOp ==
    InLaterRun =>
        /\ invalid_rounds = {}
        /\ left_issues = {}
        /\ right_issues = {}
        /\ rowcount = NoRowcount
        /\ tx = db0
        /\ db = db0

\* the second run has finished after a first run that changed both columns
C1_Witness ==
    /\ runs = 2
    /\ pc = "returned"
    /\ \E p \in PlayerIds :
          /\ initial[p].shoots # db[p].shoots
          /\ initial[p].draft_round # db[p].draft_round

\* C2 as stated: a row stored as "RightLeft" ends as "Right" once both passes ran.
C2_RightLeftEndsRight ==
    PassesApplied =>
        \A p \in PlayerIds : db0[p].shoots = Some(RightLeft) => tx[p].shoots = Some(Right)

\* C2 amended: a row stored as "RightLeft" ends as "Left" once both passes ran
\* (the Left pass rewrites it, and the Right pass no longer matches it).
C2_RightLeftEndsLeft ==
    PassesApplied =>
        \A p \in PlayerIds : db0[p].shoots = Some(RightLeft) => tx[p].shoots = Some(Left)

\* a "RightLeft" row went through both passes: reported by both, updated by the Left one
C2_Witness ==
    /\ pc = "close"
    /\ \E p \in PlayerIds :
          /\ db0[p].shoots = Some(RightLeft)
          /\ db[p].shoots = Some(Left)
          /\ [player_id |-> p, shoots |-> RightLeft] \in left_issues \cap right_issues

\* C3 as stated: for every row the repair leaves normalize_shoots of the stored
\* shoots and normalize_draft_round of the stored draft_round.
C3_RepairEqualsNormalizers ==
    PassesApplied =>
        \A p \in PlayerIds :
            /\ tx[p].shoots = normalize_shoots(db0[p].shoots)
            /\ tx[p].draft_round = normalize_draft_round(AsRaw(db0[p].draft_round))

\* a stored shoots value on which the two agree: absent, holding "left" or
\* "right" in any case, or non-empty with no surrounding whitespace
Untrimmed(shoots) ==
    /\ shoots # None
    /\ ~Contains(Lower(The(shoots)), left)
    /\ ~Contains(Lower(The(shoots)), right)
    /\ (The(shoots) = <<>> \/ Strip(The(shoots)) # The(shoots))

\* C3 amended: the repair leaves normalize_draft_round of the stored round, and
\* normalize_shoots of the stored shoots unless that value is empty or is
\* whitespace-padded with neither substring; such a value the repair leaves as
\* stored, while the normalizer gives absent (empty) or the trimmed text.
C3_RepairEqualsNormalizersWhenTrimmed ==
    PassesApplied =>
        \A p \in PlayerIds :
            /\ tx[p].draft_round = normalize_draft_round(AsRaw(db0[p].draft_round))
            /\ ~Untrimmed(db0[p].shoots) => tx[p].shoots = normalize_shoots(db0[p].shoots)
            /\ Untrimmed(db0[p].shoots) =>
                  /\ tx[p].shoots = db0[p].shoots
                  /\ tx[p].shoots # normalize_shoots(db0[p].shoots)

\* a "LeftRight" row with round 3 and a padded lower-case row were both repaired
C3_Witness ==
    /\ pc = "close"
    /\ \E p, q \in PlayerIds :
          /\ db0[p] = [shoots |-> Some(LeftRight), draft_round |-> Some(RoundCap + 1)]
          /\ db[p] = [shoots |-> Some(Left), draft_round |-> Some(RoundCap)]
          /\ db0[q].shoots = Some(Space \o RIGHT)
          /\ db[q].shoots = Some(Right)

\* C4: once the repair has run, every shoots is absent, "Left" or "Right".
C4_ShootsCanonical ==
    PassesApplied => \A p \in PlayerIds : tx[p].shoots \in {None, Some(Left), Some(Right)}

\* C5 as stated: once the repair has run, every draft_round is absent or in 1..2.
C5_RoundInOneTwo ==
    PassesApplied =>
        \A p \in PlayerIds :
            tx[p].draft_round = None \/ The(tx[p].draft_round) \in 1..RoundCap

\* C5 amended: once the repair has run, every draft_round is absent or at most
\* 2; a stored round of at most 2 (0 and negatives included) is left as it
\* was, so the round is in 1..2 when the stored one was at least 1.
C5_RoundAtMostTwo ==
    PassesApplied =>
        \A p \in PlayerIds :
            LET before == db0[p].draft_round
                after == tx[p].draft_round
            IN  /\ before = None <=> after = None
                /\ after # None =>
                      /\ The(after) <= RoundCap
                      /\ The(before) <= RoundCap => after = before
                      /\ The(before) >= 1 => The(after) \in 1..RoundCap

\* a round of 3 was capped next to a round of 0 or less that was kept
C5_Witness ==
    /\ pc = "close"
    /\ \E p, q \in PlayerIds :
          /\ db0[p].draft_round = Some(RoundCap + 1)
          /\ db[p].draft_round = Some(RoundCap)
          /\ db0[q].draft_round # None
          /\ The(db0[q].draft_round) <= 0
          /\ db[q].draft_round = db0[q].draft_round

\* C8: until the commit the persisted table is the one the run found, also
\* after a fault raised by any statement before the commit.
C8_CommittedAsOneUnit == pc \in InTransaction \cup {"aborted"} => db = db0

\* a fault after step 1's update and the Left update, before the Right update
C8_Witness ==
    /\ pc = "aborted"
    /\ rowcount.rounds > 0
    /\ rowcount.left > 0
    /\ rowcount.right < 0
    /\ right_issues # {}
    /\ db = db0

\* C9: every row reported "'old' -> 'Right'" ends as "Right" and every row
\* reported "'old' -> 'Left'" ends as "Left" (no row rewritten to "Left" is
\* reported by the Right pass).
C9_ReportsMatchOutcome ==
    PassesApplied =>
        /\ \A x \in right_issues : tx[x.player_id].shoots = Some(Right)
        /\ \A x \in left_issues : tx[x.player_id].shoots = Some(Left)

----------------------------------------------------------------------------
(* Properties of main *)

\* fix_existing_data as one function of the table
Repaired(t) == UpdateRight(UpdateLeft(UpdateRounds(t)))

AfterRepair == pc \in {"returned", "test2", "test3", "validate", "done", "crashed"}
Ended == pc \in {"done", "crashed", "aborted"}

\* C10 as stated: a run that has ended after a failed fetch has still carried
\* out its final validation report.
C10_ReportAfterFailedFetch == (Ended /\ failed) => report # None

\* C10 amended: the repair is committed before the first fetch and stays
\* committed; a failed fetch ends the whole run there, so no later extraction
\* and no final validation report is carried out.
C10_FailedFetchEndsRun ==
    /\ AfterRepair => runs = 1 /\ db = Repaired(initial)
    /\ failed <=> pc = "crashed"
    /\ failed => report = None /\ tests_done < 3
    /\ pc = "done" <=> report # None

\* the second fetch failed after a repair that changed the table
C10_Witness ==
    /\ pc = "crashed"
    /\ tests_done = 1
    /\ db # initial
    /\ report = None

----------------------------------------------------------------------------
(* Properties of the normalizers and the extractor *)

\* C6: applying a normalizer to its own output changes nothing.
C6_Idempotent == pc = "normalized" => twice = once

UndraftedInvariant(r) ==
    r.draft_round = None =>
        r.draft_pick = None /\ r.draft_team = None /\ r.draft_year = None

\* C7 as stated: a returned record with no draft_round has no draft_pick,
\* draft_team or draft_year.
C7_UndraftedInvariant == pc = "returned" => UndraftedInvariant(rec)

\* C7 amended: a returned record has none of the four draft fields when the last
\* "Draft:" paragraph processed carried the Undrafted marker (or no paragraph had
\* "Draft:"); a "Draft:" paragraph without the marker sets each field on its own.
C7_UndraftedMarkerClearsAll ==
    (pc = "returned" /\ last_draft # "drafted") => ~DraftSet(rec)

\* an Undrafted paragraph cleared draft fields an earlier paragraph had set
C7_Witness ==
    /\ pc = "returned"
    /\ last_draft = "undrafted"
    /\ cleared
    /\ ~DraftSet(rec)

=============================================================================
